---- MODULE Spec2Model ----
(***************************************************************************)
(* KEN-AI backend: the weather-context pipeline (backend/weather.py) and   *)
(* the chat turn with its token relay (backend/main.py, POST /chat/stream).*)
(*                                                                         *)
(* These specifications share this module:                                 *)
(*   SpecRelay  the generate() coroutine of stream(): the token relay      *)
(*   SpecRelayLive  the same with a backend that in the end closes or      *)
(*              fails the stream                                           *)
(*   SpecCache  the TTL-cached fetchers of weather.py, called by           *)
(*              interleaving requests while the clock advances             *)
(*   SpecTurn   the body of stream() up to the opening of the relay:       *)
(*              location, build_weather_packet, last_location, messages    *)
(*   SpecPacket build_weather_packet called again and again                *)
(*   SpecResolve extract_location and the follow-up rule, on every query   *)
(*   SpecForecast the forecast aggregation, on every list of samples       *)
(*   SpecWeather the turns together with calls of the fetchers on their own*)
(*   SpecDescription the common description of a day of the forecast       *)
(***************************************************************************)
EXTENDS Integers, Sequences, FiniteSets, TLC

(***************************************************************************)
(* Bounds                                                                  *)
(***************************************************************************)
MaxChunks == 2       \* chunks the backend delivers before the relay is cut off
MaxLines == 3        \* non-empty lines the backend sends in all, over its chunks

(***************************************************************************)
(* State of generate() (main.py 406-470) and of its environment            *)
(***************************************************************************)
VARIABLES
    rstate,          \* position of generate(): IDLE, STREAMING, COMPLETED, CANCELLED, FAILED
    full_response,   \* main.py 407: the accumulator
    cancelled,       \* main.py 408
    emitted,         \* every string yielded to the client, in order
    assistant_rows,  \* rows inserted into chats with role 'assistant' by this turn
    disconnected,    \* what request.is_disconnected() answers
    delivered,       \* chunks handed over by resp.aiter_bytes(), in order
    resp_status,     \* resp.status_code, 0 before the request is opened
    resp_body        \* the body of a non-200 answer (the provider's error text)

relayVars == <<rstate, full_response, cancelled, emitted, assistant_rows,
               disconnected, delivered, resp_status, resp_body>>

(***************************************************************************)
(* State of weather.py: the process-wide caches and the clock, and the     *)
(* calls of its fetchers that are in progress                              *)
(***************************************************************************)
VARIABLES
    owm_key,         \* weather.py 18: whether WEATHER_API_KEY is set
    cache,           \* weather.py 21-24: tier -> (key -> [value, at])
    now,             \* weather.py 35-36: what _now_ts() answers, in seconds
    ticks,           \* how often the clock has advanced
    calls,           \* how many calls have been started
    focus,           \* the fetcher the calls of one behaviour of SpecCache go to
    call,            \* thread -> the call of a fetcher it is in
    last_write,      \* the most recent store into a cache
    built            \* what the last call of build_weather_packet did and returned

cacheVars == <<owm_key, cache, now, ticks, calls, focus, call, last_write, built>>

(***************************************************************************)
(* State of stream() (main.py 301-403): the chat's rows and the turn       *)
(***************************************************************************)
VARIABLES
    chats,           \* main.py 316, 327: the rows of the chat, oldest first
    last_location,   \* main.py 306, 345: chat_titles.last_location, "" for NULL
    messages,        \* main.py 380-403: the list sent to the model backend
    turn,            \* the turn in progress: its phase and what its weather path did
    turns            \* how many turns have been started

turnVars == <<chats, last_location, messages, turn, turns>>

(***************************************************************************)
(* A function of the program called on its own: its arguments, its result  *)
(***************************************************************************)
VARIABLES
    input,           \* the arguments of the call
    output           \* what the call returns, Pending before it has run

fnVars == <<input, output>>

(***************************************************************************)
(* Lines of the backend's stream.  A line is its raw text together with    *)
(* what json.loads makes of it:                                            *)
(*   jk  invalid (json.loads raises) | nonobject (a number, string, list,  *)
(*       null) | object                                                    *)
(*   mk  the "message" member: absent | nondict | dict                     *)
(*   ck  the "content" member of message: absent | empty | null | str |    *)
(*       nonstr (a truthy value that is not a string)                      *)
(***************************************************************************)
Line(raw, jk, mk, ck, content) ==
    [raw |-> raw, jk |-> jk, mk |-> mk, ck |-> ck, content |-> content]

Lines ==
    { Line("{a}",      "object",    "dict",    "str",    "a"),
      Line("{done}",   "object",    "dict",    "empty",  ""),
      Line("{m:null}", "object",    "nondict", "absent", ""),
      Line("{c:5}",    "object",    "dict",    "nonstr", ""),
      Line("7",        "nonobject", "absent",  "absent", ""),
      Line("x!",       "invalid",   "absent",  "absent", ""),
      Line(" ",        "invalid",   "absent",  "absent", "") }

RECURSIVE SeqsUpTo(_, _)
SeqsUpTo(S, n) ==
    IF n = 0 THEN { <<>> }
    ELSE LET shorter == SeqsUpTo(S, n - 1)
         IN  shorter \cup { Append(s, x) : s \in shorter, x \in S }

\* text.split("\n") of one decoded chunk of at most n lines
Chunks(n) == SeqsUpTo(Lines, n)

RECURSIVE LinesIn(_)
LinesIn(chunks) ==
    IF chunks = <<>> THEN 0 ELSE Len(Head(chunks)) + LinesIn(Tail(chunks))

Statuses == {200, 404, 500}
ErrorBodies == {"model not found", ""}

\* main.py 435: not line.strip()
IsBlank(line) == line.raw \in {"", " "}

\* main.py 438-441: json.loads(line), j.get("message", {}).get("content", "")
\* and full_response += token raise for these lines (JSONDecodeError,
\* AttributeError, TypeError), which the handler of line 443 catches
ParseRaisesJsonOnly(line) == line.jk = "invalid"

ParseRaises(line) ==
    \/ line.jk = "invalid"
    \/ line.jk = "nonobject"
    \/ line.mk = "nondict"
    \/ line.ck = "nonstr"

\* main.py 439: the token of a line that json.loads accepted
ContentToken(line) ==
    IF line.mk = "dict" /\ line.ck = "str" THEN line.content ELSE ""

\* main.py 435-446: one line of a chunk; st = [full |-> accumulator, out |-> yielded]
RelayLineNoAccumulate(line, st) ==
    IF IsBlank(line) THEN st
    ELSE IF ParseRaises(line)
         THEN [full |-> st.full, out |-> Append(st.out, line.raw)]
    ELSE IF ContentToken(line) # ""
         THEN [full |-> st.full \o ContentToken(line),
               out  |-> Append(st.out, ContentToken(line))]
    ELSE st

RelayLine(line, st) ==
    IF IsBlank(line) THEN st
    ELSE IF ParseRaises(line)
         THEN [full |-> st.full \o line.raw, out |-> Append(st.out, line.raw)]
    ELSE IF ContentToken(line) # ""
         THEN [full |-> st.full \o ContentToken(line),
               out  |-> Append(st.out, ContentToken(line))]
    ELSE st

\* main.py 434: for line in text.split("\n")
RECURSIVE RelayLines(_, _)
RelayLines(lines, st) ==
    IF lines = <<>> THEN st
    ELSE RelayLines(Tail(lines), RelayLine(Head(lines), st))

\* main.py 421: httpx's Response.text is a property and the body of a streamed
\* response has not been read, so `await resp.text()` always raises
RespTextRaises == TRUE

\* main.py 420-424
ModelErrorToken(body) ==
    "LLM model error: " \o (IF RespTextRaises THEN "Model error" ELSE body)

\* main.py 427-446: one iteration of `async for chunk`; disc is the answer of
\* request.is_disconnected(), st = [full |-> accumulator, out |-> yielded]
ChunkStepLateCheck(chunk, disc, st) ==
    LET r == RelayLines(chunk, st)
    IN  [cancelled |-> disc, full |-> r.full, out |-> r.out]

ChunkStep(chunk, disc, st) ==
    IF disc
    THEN [cancelled |-> TRUE, full |-> st.full, out |-> st.out]
    ELSE LET r == RelayLines(chunk, st)
         IN  [cancelled |-> FALSE, full |-> r.full, out |-> r.out]

\* main.py 455-470: if not cancelled, insert the assistant row; a failing
\* INSERT is swallowed
SaveResponse(rows, isCancelled, text, dbOk) ==
    IF ~isCancelled /\ dbOk THEN Append(rows, text) ELSE rows

\* main.py 448-453: one error string is yielded and generate() returns before
\* the save of line 456; st = [out |-> yielded, rows |-> assistant rows]
ErrorExitSavesPartial(st, tok, text) ==
    [out |-> Append(st.out, tok), rows |-> Append(st.rows, text)]

ErrorExit(st, tok, text) ==
    [out |-> Append(st.out, tok), rows |-> st.rows]

RelayInit ==
    /\ rstate = "IDLE"
    /\ full_response = ""
    /\ cancelled = FALSE
    /\ emitted = <<>>
    /\ assistant_rows = <<>>
    /\ disconnected = FALSE
    /\ delivered = <<>>
    /\ resp_status = 0
    /\ resp_body = ""

\* main.py 412-425: the backend answers the streaming request
OpenStream ==
    /\ rstate = "IDLE"
    /\ \E status \in Statuses, body \in ErrorBodies :
          /\ resp_status' = status
          /\ IF status # 200
             THEN /\ resp_body' = body
                  /\ emitted' = Append(emitted, ModelErrorToken(body))
                  /\ rstate' = "FAILED"
             ELSE /\ resp_body' = ""
                  /\ emitted' = emitted
                  /\ rstate' = "STREAMING"
    /\ UNCHANGED <<full_response, cancelled, assistant_rows, disconnected, delivered>>
    /\ UNCHANGED <<cacheVars, turnVars, fnVars>>

\* main.py 427-446, 455-456: the backend delivers one chunk.  delivered keeps
\* the chunks handed over before a disconnect was seen.
ReadChunk ==
    /\ rstate = "STREAMING"
    /\ disconnected \/ Len(delivered) < MaxChunks
    /\ \E chunk \in Chunks(IF disconnected THEN 1 ELSE MaxLines - LinesIn(delivered)) :
          /\ LET r == ChunkStep(chunk, disconnected,
                                [full |-> full_response, out |-> emitted])
             IN  /\ cancelled' = r.cancelled
                 /\ full_response' = r.full
                 /\ emitted' = r.out
                 /\ rstate' = IF r.cancelled THEN "CANCELLED" ELSE "STREAMING"
                 /\ assistant_rows' =
                       IF r.cancelled
                       THEN SaveResponse(assistant_rows, TRUE, r.full, TRUE)
                       ELSE assistant_rows
                 /\ delivered' = IF disconnected THEN delivered
                                                  ELSE Append(delivered, chunk)
    /\ UNCHANGED <<disconnected, resp_status, resp_body>>
    /\ UNCHANGED <<cacheVars, turnVars, fnVars>>

\* main.py 427, 455-470: the body is exhausted, the loop ends, the row is saved
EndOfStreamSeesDisconnect ==
    /\ rstate = "STREAMING"
    /\ \E dbOk \in BOOLEAN :
          assistant_rows' = SaveResponse(assistant_rows, cancelled \/ disconnected,
                                         full_response, dbOk)
    /\ rstate' = IF disconnected THEN "CANCELLED" ELSE "COMPLETED"
    /\ UNCHANGED <<full_response, cancelled, emitted, disconnected, delivered,
                   resp_status, resp_body>>
    /\ UNCHANGED <<cacheVars, turnVars, fnVars>>

EndOfStream ==
    /\ rstate = "STREAMING"
    /\ \E dbOk \in BOOLEAN :
          assistant_rows' = SaveResponse(assistant_rows, cancelled, full_response, dbOk)
    /\ rstate' = "COMPLETED"
    /\ UNCHANGED <<full_response, cancelled, emitted, disconnected, delivered,
                   resp_status, resp_body>>
    /\ UNCHANGED <<cacheVars, turnVars, fnVars>>

\* main.py 448-453: client.stream() or aiter_bytes() raises
StreamError ==
    /\ rstate \in {"IDLE", "STREAMING"}
    /\ \E tok \in {"Network error: e", "Unexpected error: e"} :
          LET r == ErrorExit([out |-> emitted, rows |-> assistant_rows], tok,
                             full_response)
          IN  /\ emitted' = r.out
              /\ assistant_rows' = r.rows
    /\ rstate' = "FAILED"
    /\ UNCHANGED <<full_response, cancelled, disconnected, delivered,
                   resp_status, resp_body>>
    /\ UNCHANGED <<cacheVars, turnVars, fnVars>>

\* the client goes away; the relay sees it at its next is_disconnected() call
ClientDisconnect ==
    /\ ~disconnected
    /\ rstate \in {"IDLE", "STREAMING"}
    /\ disconnected' = TRUE
    /\ UNCHANGED <<rstate, full_response, cancelled, emitted, assistant_rows,
                   delivered, resp_status, resp_body>>
    /\ UNCHANGED <<cacheVars, turnVars, fnVars>>

(***************************************************************************)
(* weather.py: Python values, the provider's answers, the four fetchers    *)
(***************************************************************************)
\* JSON / Python values as they come out of r.json()
Null == [t |-> "null"]
Num(n) == [t |-> "num", v |-> n]
Str(x) == [t |-> "str", v |-> x]

\* the None a fetcher returns
None == [kind |-> "none"]

Tiers == {"geo", "current", "forecast", "aqi"}

\* weather.py 27-30
GEO_TTL == 24 * 3600
CURRENT_TTL == 5 * 60
FORECAST_TTL == 10 * 60
AQI_TTL == 60 * 60

TTL(tier) ==
    CASE tier = "geo" -> GEO_TTL
      [] tier = "current" -> CURRENT_TTL
      [] tier = "forecast" -> FORECAST_TTL
      [] tier = "aqi" -> AQI_TTL

\* dict.get(key): the stored (value, timestamp) tuple, or None
NoEntry == [present |-> FALSE]
Entry(value, at) == [present |-> TRUE, value |-> value, at |-> at]
CacheGet(c, key) ==
    IF key \in DOMAIN c THEN Entry(c[key].value, c[key].at) ELSE NoEntry

\* weather.py 49, 92, 136, 200: cached and _now_ts() - cached[1] < TTL
FreshInclusive(cached, t, ttl) == cached.present /\ t - cached.at <= ttl

Fresh(cached, t, ttl) == cached.present /\ t - cached.at < ttl

\* weather.py 76, 120, 184, 222: _cache[key] = (result, _now_ts())
CachePutKeepsStamp(c, key, value, t) ==
    [k \in DOMAIN c \cup {key} |->
        IF k = key
        THEN [value |-> value, at |-> IF key \in DOMAIN c THEN c[key].at ELSE t]
        ELSE c[k]]

CachePut(c, key, value, t) ==
    [k \in DOMAIN c \cup {key} |->
        IF k = key THEN [value |-> value, at |-> t] ELSE c[k]]

\* the location strings a caller passes and weather.py 46: location.strip().lower()
Locations == {"Pune", " pune "}
StripLower(location) ==
    CASE location = "Pune" -> "pune"
      [] location = " pune " -> "pune"
      [] location = "What About Tomorrow" -> "what about tomorrow"

\* coordinates in units of 0.00001 degree; the two differ in the fifth
\* decimal only
Coords == { <<1852041, 7385674>>, <<1852044, 7385674>> }
DayCounts == {1, 5}

\* f"{x:.4f}": raises for a value that is not a number, else rounds to four
\* decimals (the result in units of 0.0001 degree)
FormatRaises(x) == x.t # "num"
Fmt4(x) == (x.v + 5) \div 10

\* the arguments of a call of a fetcher
Args(location, lat, lon, days) ==
    [location |-> location, lat |-> lat, lon |-> lon, days |-> days]

ArgsOf(tier) ==
    IF tier = "geo"
    THEN { Args(l, Null, Null, 0) : l \in Locations }
    ELSE { Args("", Num(c[1]), Num(c[2]), IF tier = "forecast" THEN d ELSE 0) :
              c \in Coords, d \in DayCounts }

\* weather.py 46, 90, 134, 198: the cache key of a call
KeyOfWithoutDays(tier, a) ==
    CASE tier = "geo" -> << StripLower(a.location) >>
      [] tier = "current" -> << "cur", Fmt4(a.lat), Fmt4(a.lon) >>
      [] tier = "forecast" -> << "fc", Fmt4(a.lat), Fmt4(a.lon) >>
      [] tier = "aqi" -> << "aqi", Fmt4(a.lat), Fmt4(a.lon) >>

KeyOf(tier, a) ==
    CASE tier = "geo" -> << StripLower(a.location) >>
      [] tier = "current" -> << "cur", Fmt4(a.lat), Fmt4(a.lon) >>
      [] tier = "forecast" -> << "fc", Fmt4(a.lat), Fmt4(a.lon), a.days >>
      [] tier = "aqi" -> << "aqi", Fmt4(a.lat), Fmt4(a.lon) >>

\* weather.py 90, 134, 198: the key is formatted outside the try block
KeyRaises(tier, a) ==
    tier # "geo" /\ (FormatRaises(a.lat) \/ FormatRaises(a.lon))

\* An answer of the provider: status 0 stands for requests.get raising (network
\* fault, timeout); json = FALSE for a body on which r.json() raises; body is
\* the parsed document.
Resp(status, json, body) == [status |-> status, json |-> json, body |-> body]

HttpFailures == { Resp(500, FALSE, <<>>), Resp(0, FALSE, <<>>), Resp(200, FALSE, <<>>) }

\* geocoding: a list of places
GeoTop(name, lat, lon) == [name |-> name, lat |-> lat, lon |-> lon, country |-> Str("IN")]
GeoTops ==
    { GeoTop(Str("Pune"), Num(1852041), Num(7385674)),
      GeoTop(Null, Num(1852044), Num(7385674)),
      GeoTop(Str("Pune"), Null, Num(7385674)),
      GeoTop(Str("Pune"), Num(1852041), Null),
      GeoTop(Str("Pune"), Str("18.52"), Str("73.85")) }
GeoResponses ==
    HttpFailures \cup { Resp(200, TRUE, <<>>) } \cup { Resp(200, TRUE, << top >>) : top \in GeoTops }

\* current conditions: a document with a "weather" list and main.temp
CurrentDoc(weather, temp) == [weather |-> weather, temp |-> temp]
CurrentResponses ==
    HttpFailures \cup
    { Resp(200, TRUE, CurrentDoc(<< >>, Num(20))),
      Resp(200, TRUE, CurrentDoc(<< "clear sky" >>, Num(20))),
      Resp(200, TRUE, CurrentDoc(<< "clear sky" >>, Null)) }

\* forecast: the "list" of samples, each with its dt (seconds since the
\* epoch, or missing) and its main.temp, wind.speed and main.humidity
Sample(dt, temp, wind, hum) == [dt |-> dt, temp |-> temp, wind |-> wind, hum |-> hum]
DaySeconds == 24 * 3600
ForecastResponses ==
    HttpFailures \cup
    { Resp(200, TRUE, l) :
        l \in { <<>>,
                << Sample(Num(2 * DaySeconds + 3600), Num(30), Num(4), Null),
                   Sample(Null, Num(20), Null, Num(50)),
                   Sample(Num(3 * DaySeconds - 1), Null, Num(2), Num(60)) >> } }

\* air quality: the "list" of readings, each reduced to main.aqi
AqiResponses ==
    HttpFailures \cup { Resp(200, TRUE, l) : l \in { <<>>, << Num(1) >>, << Num(3) >> } }

Responses(tier) ==
    CASE tier = "geo" -> GeoResponses
      [] tier = "current" -> CurrentResponses
      [] tier = "forecast" -> ForecastResponses
      [] tier = "aqi" -> AqiResponses

\* weather.py 52-80: geocode_location after a cache miss
GeoFetch(resp) ==
    IF resp.status # 200 \/ ~resp.json THEN None
    ELSE IF resp.body = <<>> THEN None
    ELSE LET top == resp.body[1]
         IN  [kind |-> "geo", name |-> top.name, lat |-> top.lat, lon |-> top.lon,
              country |-> top.country]

\* weather.py 95-124: _fetch_current_weather_by_coord after a cache miss;
\* d.get("weather", [{}])[0] raises on an empty list
CurrentFetch(resp) ==
    IF resp.status # 200 \/ ~resp.json THEN None
    ELSE IF resp.body.weather = <<>> THEN None
    ELSE [kind |-> "current", description |-> Str(resp.body.weather[1]),
          temp_c |-> resp.body.temp]

RECURSIVE SortedSeq(_)
SortedSeq(S) ==
    IF S = {} THEN <<>>
    ELSE LET m == CHOOSE x \in S : \A y \in S : x <= y
         IN  << m >> \o SortedSeq(S \ {m})

Take(seq, n) == SubSeq(seq, 1, IF Len(seq) < n THEN Len(seq) ELSE n)

\* weather.py 155-156: the UTC day of a sample, as days since the epoch;
\* time.gmtime(None) is the current time
DayOf(dt, t) == IF dt = Null THEN t \div DaySeconds ELSE dt.v \div DaySeconds

\* weather.py 153-167: the days of the aggregate, sorted(daily.keys())[:days]
ForecastDates(samples, days, t) ==
    Take(SortedSeq({ DayOf(samples[i].dt, t) : i \in 1..Len(samples) }), days)

\* weather.py 170-172: [x for x in xs if x is not None]
IsNotNull(x) == x # Null
NonNullAsZero(xs) == [i \in 1..Len(xs) |-> IF xs[i] = Null THEN 0 ELSE xs[i].v]

NonNull(xs) ==
    LET kept == SelectSeq(xs, IsNotNull)
    IN  [i \in 1..Len(kept) |-> kept[i].v]

\* min(xs), max(xs), sum(xs) of a non-empty list, element by element
RECURSIVE MinOf(_)
MinOf(xs) ==
    IF Len(xs) = 1 THEN xs[1]
    ELSE LET m == MinOf(Tail(xs)) IN IF xs[1] <= m THEN xs[1] ELSE m

RECURSIVE MaxOf(_)
MaxOf(xs) ==
    IF Len(xs) = 1 THEN xs[1]
    ELSE LET m == MaxOf(Tail(xs)) IN IF xs[1] >= m THEN xs[1] ELSE m

RECURSIVE SumOf(_)
SumOf(xs) == IF xs = << >> THEN 0 ELSE xs[1] + SumOf(Tail(xs))

\* sum(xs)/len(xs): the quotient, kept as its two terms
Ratio(num, den) == [t |-> "ratio", num |-> num, den |-> den]
Mean(xs) == IF xs = << >> THEN Null ELSE Ratio(SumOf(xs), Len(xs))

\* weather.py 167-181: the entry of one day (common_description left out)
DayEntry(samples, day, t) ==
    LET OnDay(smp) == DayOf(smp.dt, t) = day
        mine == SelectSeq(samples, OnDay)
        temps == NonNull([i \in 1..Len(mine) |-> mine[i].temp])
        winds == NonNull([i \in 1..Len(mine) |-> mine[i].wind])
        hums == NonNull([i \in 1..Len(mine) |-> mine[i].hum])
    IN  [date |-> day,
         temp_min_c |-> IF temps = << >> THEN Null ELSE Num(MinOf(temps)),
         temp_max_c |-> IF temps = << >> THEN Null ELSE Num(MaxOf(temps)),
         temp_avg_c |-> Mean(temps),
         wind_avg_m_s |-> Mean(winds),
         humidity_avg |-> Mean(hums)]

\* weather.py 166-182: result, one entry per day in the order of the days
RECURSIVE DayEntries(_, _, _)
DayEntries(samples, dates, t) ==
    IF dates = << >> THEN << >>
    ELSE << DayEntry(samples, dates[1], t) >> \o DayEntries(samples, Tail(dates), t)

\* weather.py 139-188: _fetch_forecast_by_coord after a cache miss
ForecastFetch(resp, days, t) ==
    IF resp.status # 200 \/ ~resp.json THEN None
    ELSE [kind |-> "forecast",
          dates |-> ForecastDates(resp.body, days, t),
          daily |-> DayEntries(resp.body, ForecastDates(resp.body, days, t), t)]

\* weather.py 203-228: _fetch_aqi_by_coord after a cache miss
AqiFetch(resp) ==
    IF resp.status # 200 \/ ~resp.json THEN None
    ELSE IF resp.body = <<>> THEN None
    ELSE [kind |-> "aqi", aqi_index |-> resp.body[1]]

\* the part of a fetcher after its cache miss: the value it stores and returns,
\* or None, in which case it stores nothing
FetchResult(tier, a, resp, t) ==
    CASE tier = "geo" -> GeoFetch(resp)
      [] tier = "current" -> CurrentFetch(resp)
      [] tier = "forecast" -> ForecastFetch(resp, a.days, t)
      [] tier = "aqi" -> AqiFetch(resp)

(***************************************************************************)
(* SpecCache: threads call one fetcher; a call is cut at its network       *)
(* request, where other threads run and the clock advances                 *)
(***************************************************************************)
MaxTicks == 2        \* advances of the clock in one behaviour
MaxCalls == 3        \* calls of the fetcher in one behaviour
Threads == {1, 2}

NoBuild == [location |-> "", days |-> 0, kind |-> "none"]

\* weather.py 59-60, 79-80: an answer that is not 200, a request that raises, a
\* body on which r.json() raises
IsFailure(resp) == resp.status # 200 \/ ~resp.json

IdleCall ==
    [pc |-> "idle", args |-> Args("", Null, Null, 0), upstream |-> 0, ret |-> None,
     failure |-> FALSE]

EmptyCaches == [tier \in Tiers |-> << >>]

CacheInit ==
    /\ owm_key \in BOOLEAN
    /\ cache = EmptyCaches
    /\ now = 0
    /\ ticks = 0
    /\ calls = 0
    /\ focus \in Tiers
    /\ call = [p \in Threads |-> IdleCall]
    /\ last_write = NoEntry
    /\ built = NoBuild

\* weather.py 43-50, 87-93, 131-137, 195-201: the call up to its network request
StartCall(p) ==
    /\ call[p].pc = "idle"
    /\ calls < MaxCalls
    /\ calls' = calls + 1
    /\ \E a \in ArgsOf(focus) :
          LET cached == CacheGet(cache[focus], KeyOf(focus, a))
              c == [call[p] EXCEPT !.args = a]
          IN  call' = [call EXCEPT ![p] =
                  IF ~owm_key
                  THEN [c EXCEPT !.pc = "done", !.ret = None]
                  ELSE IF Fresh(cached, now, TTL(focus))
                  THEN [c EXCEPT !.pc = "done", !.ret = cached.value]
                  ELSE [c EXCEPT !.pc = "fetching"]]
    /\ UNCHANGED <<owm_key, cache, now, ticks, focus, last_write, built>>
    /\ UNCHANGED <<relayVars, turnVars, fnVars>>

\* weather.py 52-80, 95-124, 139-188, 203-228: the provider answers (or the
\* request raises) and the call stores and returns
UpstreamAnswersServesStale(p) ==
    /\ call[p].pc = "fetching"
    /\ \E resp \in Responses(focus) :
          LET a == call[p].args
              key == KeyOf(focus, a)
              result == FetchResult(focus, a, resp, now)
          IN  IF result = None
              THEN /\ call' = [call EXCEPT ![p].pc = "done", ![p].upstream = 1,
                                           ![p].ret = IF key \in DOMAIN cache[focus]
                                                     THEN cache[focus][key].value
                                                     ELSE None,
                                           ![p].failure = IsFailure(resp)]
                   /\ UNCHANGED <<cache, last_write>>
              ELSE /\ cache' = [cache EXCEPT ![focus] = CachePut(@, key, result, now)]
                   /\ call' = [call EXCEPT ![p].pc = "done", ![p].upstream = 1,
                                           ![p].ret = result,
                                           ![p].failure = IsFailure(resp)]
                   /\ last_write' = [present |-> TRUE, key |-> key,
                                     value |-> result, at |-> now]
    /\ UNCHANGED <<owm_key, now, ticks, calls, focus, built>>
    /\ UNCHANGED <<relayVars, turnVars, fnVars>>

UpstreamAnswers(p) ==
    /\ call[p].pc = "fetching"
    /\ \E resp \in Responses(focus) :
          LET a == call[p].args
              key == KeyOf(focus, a)
              result == FetchResult(focus, a, resp, now)
          IN  IF result = None
              THEN /\ call' = [call EXCEPT ![p].pc = "done", ![p].upstream = 1,
                                           ![p].ret = None,
                                           ![p].failure = IsFailure(resp)]
                   /\ UNCHANGED <<cache, last_write>>
              ELSE /\ cache' = [cache EXCEPT ![focus] = CachePut(@, key, result, now)]
                   /\ call' = [call EXCEPT ![p].pc = "done", ![p].upstream = 1,
                                           ![p].ret = result,
                                           ![p].failure = IsFailure(resp)]
                   /\ last_write' = [present |-> TRUE, key |-> key,
                                     value |-> result, at |-> now]
    /\ UNCHANGED <<owm_key, now, ticks, calls, focus, built>>
    /\ UNCHANGED <<relayVars, turnVars, fnVars>>

\* the caller takes the result; the thread is free for its next call
FinishCall(p) ==
    /\ call[p].pc = "done"
    /\ call' = [call EXCEPT ![p] = IdleCall]
    /\ UNCHANGED <<owm_key, cache, now, ticks, calls, focus, last_write, built>>
    /\ UNCHANGED <<relayVars, turnVars, fnVars>>

\* time passes: one second, or one second less than the TTL of the fetcher
Tick ==
    /\ ticks < MaxTicks
    /\ \E d \in {1, TTL(focus) - 1} : now' = now + d
    /\ ticks' = ticks + 1
    /\ UNCHANGED <<owm_key, cache, calls, focus, call, last_write, built>>
    /\ UNCHANGED <<relayVars, turnVars, fnVars>>

CacheNext ==
    \/ \E p \in Threads : StartCall(p)
    \/ \E p \in Threads : UpstreamAnswers(p)
    \/ \E p \in Threads : FinishCall(p)
    \/ Tick

(***************************************************************************)
(* weather.py 234-315: the packet of one location and its summary          *)
(***************************************************************************)
\* one fetcher called as a whole: weather.py 43-80, 87-124, 131-188, 195-228
\* (c the four caches, t the clock, resp the provider's answer on a miss)
CachedCall(tier, a, c, t, resp) ==
    IF ~owm_key THEN [ret |-> None, cache |-> c, how |-> "nokey"]
    ELSE LET key == KeyOf(tier, a)
             cached == CacheGet(c[tier], key)
             result == FetchResult(tier, a, resp, t)
         IN  IF Fresh(cached, t, TTL(tier))
             THEN [ret |-> cached.value, cache |-> c, how |-> "hit"]
             ELSE IF result = None
             THEN [ret |-> None, cache |-> c, how |-> "failed"]
             ELSE [ret |-> result,
                   cache |-> [c EXCEPT ![tier] = CachePut(@, key, result, t)],
                   how |-> "fetched"]

NotCalled == [geo |-> "skipped", current |-> "skipped", forecast |-> "skipped",
              aqi |-> "skipped"]

Built(kind, packet, geo, c, how) ==
    [kind |-> kind, packet |-> packet, geo |-> geo, cache |-> c, how |-> how]

\* weather.py 250-260
Packet(location, geo, current, forecast, aqi, t) ==
    [location |-> IF geo.name.t = "str" /\ geo.name.v # "" THEN geo.name.v ELSE location,
     country |-> geo.country, lat |-> geo.lat, lon |-> geo.lon,
     current |-> current, forecast |-> forecast, aqi |-> aqi, fetched_at |-> t]

\* weather.py 234-260: build_weather_packet; r holds the provider's answer to
\* each of the four requests.  kind is "packet", "absent" (None is returned) or
\* "raise" (an exception leaves the function).
BuildWeatherPacketAllOrNothing(location, days, c, t, r) ==
    IF location = "" THEN Built("absent", None, None, c, NotCalled)
    ELSE
    LET g == CachedCall("geo", Args(location, Null, Null, 0), c, t, r.geo)
        how1 == [NotCalled EXCEPT !.geo = g.how]
    IN  IF g.ret = None THEN Built("absent", None, None, g.cache, how1)
        ELSE IF g.ret.lat = Null \/ g.ret.lon = Null
        THEN Built("absent", None, g.ret, g.cache, how1)
        ELSE
        LET a == Args("", g.ret.lat, g.ret.lon, days)
        IN  IF KeyRaises("current", a) THEN Built("raise", None, g.ret, g.cache, how1)
            ELSE
            LET cur == CachedCall("current", a, g.cache, t, r.current)
                fc == CachedCall("forecast", a, cur.cache, t, r.forecast)
                aq == CachedCall("aqi", a, fc.cache, t, r.aqi)
                how4 == [how1 EXCEPT !.current = cur.how, !.forecast = fc.how,
                                     !.aqi = aq.how]
            IN  IF cur.ret = None \/ fc.ret = None \/ aq.ret = None
                THEN Built("absent", None, g.ret, aq.cache, how4)
                ELSE Built("packet",
                           Packet(location, g.ret, cur.ret, fc.ret, aq.ret, t),
                           g.ret, aq.cache, how4)

BuildWeatherPacket(location, days, c, t, r) ==
    IF location = "" THEN Built("absent", None, None, c, NotCalled)
    ELSE
    LET g == CachedCall("geo", Args(location, Null, Null, 0), c, t, r.geo)
        how1 == [NotCalled EXCEPT !.geo = g.how]
    IN  IF g.ret = None THEN Built("absent", None, None, g.cache, how1)
        ELSE IF g.ret.lat = Null \/ g.ret.lon = Null
        THEN Built("absent", None, g.ret, g.cache, how1)
        ELSE
        LET a == Args("", g.ret.lat, g.ret.lon, days)
        IN  IF KeyRaises("current", a) THEN Built("raise", None, g.ret, g.cache, how1)
            ELSE
            LET cur == CachedCall("current", a, g.cache, t, r.current)
                fc == CachedCall("forecast", a, cur.cache, t, r.forecast)
                aq == CachedCall("aqi", a, fc.cache, t, r.aqi)
            IN  Built("packet",
                      Packet(location, g.ret, cur.ret, fc.ret, aq.ret, t),
                      g.ret, aq.cache,
                      [how1 EXCEPT !.current = cur.how, !.forecast = fc.how,
                                   !.aqi = aq.how])

\* weather.py 266-301: format_packet_for_prompt, reduced to the place line and
\* one part for each of current, aqi and forecast that is there
FormatPacketForPrompt(pkt) ==
    pkt.location
      \o (IF pkt.country.t = "str" /\ pkt.country.v # "" THEN ", " \o pkt.country.v ELSE "")
      \o (IF pkt.current # None THEN " | Current" ELSE "")
      \o (IF pkt.aqi # None THEN " | AQI" ELSE "")
      \o (IF pkt.forecast # None /\ pkt.forecast.dates # <<>> THEN " | Forecast" ELSE "")

(***************************************************************************)
(* main.py 65-129: extract_location and is_weather_followup.  A query is   *)
(* the sequence of its words: lower-case words of letters, one blank       *)
(* between two of them; a location is a sequence of tokens, "" where a     *)
(* stop-word has been deleted between two words (two blanks in a row).     *)
(***************************************************************************)
MaxWords == 4        \* words of a query

\* the words of the queries, with len(word) and word.title()
Words == {"weather", "temperature", "in", "the", "is", "at", "pune", "ny",
          "what", "about", "tomorrow", "ok"}

WordLen(w) ==
    CASE w = "weather" -> 7 [] w = "temperature" -> 11 [] w = "in" -> 2
      [] w = "the" -> 3 [] w = "is" -> 2 [] w = "at" -> 2 [] w = "pune" -> 4
      [] w = "ny" -> 2 [] w = "what" -> 4 [] w = "about" -> 5
      [] w = "tomorrow" -> 8 [] w = "ok" -> 2 [] w = "" -> 0

TitleWord(w) ==
    CASE w = "weather" -> "Weather" [] w = "temperature" -> "Temperature"
      [] w = "in" -> "In" [] w = "the" -> "The" [] w = "is" -> "Is"
      [] w = "at" -> "At" [] w = "pune" -> "Pune" [] w = "ny" -> "Ny"
      [] w = "what" -> "What" [] w = "about" -> "About"
      [] w = "tomorrow" -> "Tomorrow" [] w = "ok" -> "Ok" [] w = "" -> ""

\* " ".join(tokens)
RECURSIVE Join(_)
Join(tokens) ==
    IF tokens = << >> THEN ""
    ELSE IF Len(tokens) = 1 THEN tokens[1]
    ELSE tokens[1] \o " " \o Join(Tail(tokens))

\* len(" ".join(tokens))
RECURSIVE CharLen(_)
CharLen(tokens) ==
    IF tokens = << >> THEN 0
    ELSE IF Len(tokens) = 1 THEN WordLen(tokens[1])
    ELSE WordLen(tokens[1]) + 1 + CharLen(Tail(tokens))

\* main.py 96, 105: the words re.sub deletes in stages 1 and 2; 115: in stage 3
StopWordsPattern == {"the", "at", "in", "for", "near", "th"}
StopWordsFallback == StopWordsPattern \cup {"is", "present"}

\* re.sub(r"\b(...)\b", "", loc): each stop-word becomes the empty string
RemoveStopWords(tokens, stop) ==
    [i \in 1..Len(tokens) |-> IF tokens[i] \in stop THEN "" ELSE tokens[i]]

\* str.strip(): the blanks at both ends go, those inside stay
RECURSIVE StripLeft(_)
StripLeft(tokens) ==
    IF tokens = << >> THEN << >>
    ELSE IF tokens[1] = "" THEN StripLeft(Tail(tokens))
    ELSE tokens

RECURSIVE StripRight(_)
StripRight(tokens) ==
    IF tokens = << >> THEN << >>
    ELSE IF tokens[Len(tokens)] = "" THEN StripRight(SubSeq(tokens, 1, Len(tokens) - 1))
    ELSE tokens

Strip(tokens) == StripRight(StripLeft(tokens))

Title(tokens) == [i \in 1..Len(tokens) |-> TitleWord(tokens[i])]

\* main.py 95-99, 104-107, 114-117: what becomes of a captured candidate;
\* << >> when it is rejected
Normalize(capture, stop) ==
    LET loc == Strip(RemoveStopWords(capture, stop))
    IN  IF CharLen(loc) > 2 THEN Title(loc) ELSE << >>

\* main.py 80-91: the patterns, each a phrase followed by the captured rest;
\* before is the word that "what.*" or "how.*" asks for ahead of the phrase
Pattern(before, phrase) == [before |-> before, phrase |-> phrase]
Patterns ==
    << Pattern("", << "weather", "in" >>),
       Pattern("", << "weather", "at" >>),
       Pattern("", << "temperature", "in" >>),
       Pattern("", << "forecast", "for" >>),
       Pattern("what", << "weather", "in" >>),
       Pattern("how", << "weather", "in" >>),
       Pattern("", << "current", "weather", "in" >>),
       Pattern("", << "what's", "the", "weather", "in" >>),
       Pattern("", << "weather" >>),
       Pattern("", << "temperature" >>) >>

\* the phrase stands at word i and at least one word follows it
PhraseAt(words, phrase, i) ==
    /\ i + Len(phrase) <= Len(words)
    /\ \A k \in 1..Len(phrase) : words[i + k - 1] = phrase[k]

MatchStarts(words, pat) ==
    { i \in 1..Len(words) :
        /\ PhraseAt(words, pat.phrase, i)
        /\ (pat.before = "" \/ \E j \in 1..(i - 1) : words[j] = pat.before) }

Least(S) == CHOOSE x \in S : \A y \in S : x <= y
Greatest(S) == CHOOSE x \in S : \A y \in S : x >= y

\* re.search(p, q).group(1): the words after the leftmost occurrence of the
\* phrase, after the last one under a greedy ".*"; << >> without a match
Capture(words, pat) ==
    LET starts == MatchStarts(words, pat)
    IN  IF starts = {} THEN << >>
        ELSE LET i == IF pat.before = "" THEN Least(starts) ELSE Greatest(starts)
             IN  SubSeq(words, i + Len(pat.phrase), Len(words))

\* main.py 93-99: the first pattern whose candidate is kept
RECURSIVE PatternStage(_, _)
PatternStage(words, k) ==
    IF k > Len(Patterns) THEN << >>
    ELSE LET loc == Normalize(Capture(words, Patterns[k]), StopWordsPattern)
         IN  IF loc # << >> THEN loc ELSE PatternStage(words, k + 1)

\* main.py 102-107: "delhi weather": all that precedes the last keyword
ReverseKeywords == {"weather", "temperature", "forecast"}
ReverseStage(words) ==
    LET ends == { j \in 2..Len(words) : words[j] \in ReverseKeywords }
    IN  IF ends = {} THEN << >>
        ELSE Normalize(SubSeq(words, 1, Greatest(ends) - 1), StopWordsPattern)

\* main.py 110-117: the last three, two, one words
RECURSIVE FallbackStage(_, _)
FallbackStage(words, size) ==
    IF size = 0 THEN << >>
    ELSE IF Len(words) < size THEN FallbackStage(words, size - 1)
    ELSE LET loc == Normalize(SubSeq(words, Len(words) - size + 1, Len(words)),
                              StopWordsFallback)
         IN  IF loc # << >> THEN loc ELSE FallbackStage(words, size - 1)

\* main.py 65-119: extract_location; << >> stands for None
ExtractLocation(words) ==
    IF words = << >> THEN << >>
    ELSE IF PatternStage(words, 1) # << >> THEN PatternStage(words, 1)
    ELSE IF ReverseStage(words) # << >> THEN ReverseStage(words)
    ELSE FallbackStage(words, 3)

\* main.py 123-129: is_weather_followup; a term is found in a word, or in two
\* words next to each other
WeatherTerms == {"weather", "temperature", "forecast", "rain", "snow", "wind",
                 "sunrise", "sunset"}
FollowupTerms == {"tomorrow", "next", "again", "later", "today"}
FollowupPairs == { << "day", "after" >>, << "same", "place" >>, << "how", "about" >>,
                   << "what", "about" >> }

IsWeatherFollowup(words) ==
    \/ \E i \in 1..Len(words) : words[i] \in WeatherTerms \cup FollowupTerms
    \/ \E i \in 1..(Len(words) - 1) : << words[i], words[i + 1] >> \in FollowupPairs

(***************************************************************************)
(* main.py 301-403: one chat turn up to the opening of the relay           *)
(***************************************************************************)
MaxTurns == 2        \* turns of the chat in one behaviour

\* a user message with what extract_location (main.py 331) and
\* is_weather_followup (main.py 332) return for it; "" stands for None
Query(words) ==
    [text |-> Join(words), extracted |-> Join(ExtractLocation(words)),
     followup |-> IsWeatherFollowup(words)]

\* the messages of the turns of SpecTurn
TurnQueryWords ==
    { << "weather", "in", "pune" >>, << "what", "about", "tomorrow" >>,
      << "tomorrow", "in", "the", "at" >>, << "ok" >> }

Queries == { Query(words) : words \in TurnQueryWords }

\* main.py 331-333
ResolveLocationPrefersStored(q, chat_last_location) ==
    IF q.followup /\ chat_last_location # "" THEN chat_last_location ELSE q.extracted

ResolveLocation(q, chat_last_location) ==
    IF q.extracted = "" /\ q.followup THEN chat_last_location ELSE q.extracted

\* the content of a message: a text and, where one is formatted into it, a
\* value (the place and summary, or the packet serialized by json.dumps)
Content(text, arg) == [text |-> text, arg |-> arg]
Message(role, content) == [role |-> role, content |-> content]

SystemPrompt == Content("You are KEN ASSISTANT.", None)

\* main.py 335-353: the weather of the turn.  An exception of the weather
\* engine is caught (350) and a failing UPDATE of last_location is ignored
\* (347); failed tells whether an exception leaves the block.  b is what
\* the one call of build_weather_packet does.
Weather(summary, packet, c, build, failed, stored) ==
    [summary |-> summary, packet |-> packet, cache |-> c, build |-> build,
     failed |-> failed, last_location |-> stored]

WeatherForTurnUncaught(location, last, c, t, r, writeOk) ==
    IF location = ""
    THEN Weather("", None, c, Built("absent", None, None, c, NotCalled), FALSE, last)
    ELSE CHOOSE w \in
           { IF b.kind = "raise"
             THEN Weather("", None, b.cache, b, TRUE, last)
             ELSE IF b.kind = "absent"
             THEN Weather("", None, b.cache, b, FALSE, last)
             ELSE Weather(FormatPacketForPrompt(b.packet), b.packet, b.cache, b, FALSE,
                          IF writeOk THEN location ELSE last) :
             b \in { BuildWeatherPacket(location, 5, c, t, r) } } : TRUE

WeatherForTurn(location, last, c, t, r, writeOk) ==
    IF location = ""
    THEN Weather("", None, c, Built("absent", None, None, c, NotCalled), FALSE, last)
    ELSE CHOOSE w \in
           { IF b.kind # "packet"
             THEN Weather("", None, b.cache, b, FALSE, last)
             ELSE Weather(FormatPacketForPrompt(b.packet), b.packet, b.cache, b, FALSE,
                          IF writeOk THEN location ELSE last) :
             b \in { BuildWeatherPacket(location, 5, c, t, r) } } : TRUE

\* main.py 380-403: the message list
HistoryMessages(history) ==
    [i \in 1..Len(history) |-> Message(history[i].role, Content(history[i].message, None))]

AssembleMessagesHistoryFirst(location, w, history, text) ==
    << Message("system", SystemPrompt) >>
    \o HistoryMessages(history)
    \o (IF w.summary # "" /\ w.packet # None
        THEN << Message("system",
                        Content("Weather summary for ",
                                [location |-> location, summary |-> w.summary])),
                Message("system", Content("WEATHER_PACKET_JSON:", w.packet)) >>
        ELSE << >>)
    \o << Message("user", Content(text, None)) >>

AssembleMessages(location, w, history, text) ==
    << Message("system", SystemPrompt) >>
    \o (IF w.summary # "" /\ w.packet # None
        THEN << Message("system",
                        Content("Weather summary for ",
                                [location |-> location, summary |-> w.summary])),
                Message("system", Content("WEATHER_PACKET_JSON:", w.packet)) >>
        ELSE << >>)
    \o HistoryMessages(history)
    \o << Message("user", Content(text, None)) >>

NoTurn ==
    [phase |-> "idle", text |-> "", location |-> "",
     build |-> Built("absent", None, None, << >>, NotCalled), write_ok |-> TRUE]

TurnInit ==
    /\ chats = << >>
    /\ last_location = ""
    /\ messages = << >>
    /\ turn = NoTurn
    /\ turns = 0

\* whether a call of a fetcher sends a request to the provider
GoesUpstream(tier, a, c, t) ==
    owm_key /\ ~Fresh(CacheGet(c[tier], KeyOf(tier, a)), t, TTL(tier))

\* the provider's possible answers (out of R) to the requests one call of
\* build_weather_packet sends: one to the geocoder unless its entry is fresh,
\* then one per coordinate fetcher unless there is no usable coordinate or
\* its entry is fresh
NoAnswer == Resp(0, FALSE, << >>)

GeoAnswers(R, location, c, t) ==
    IF location = "" THEN { NoAnswer }
    ELSE IF GoesUpstream("geo", Args(location, Null, Null, 0), c, t) THEN R["geo"]
    ELSE { NoAnswer }

CoordAnswers(R, tier, location, days, c, t, rgeo) ==
    LET g == IF location = "" THEN None
             ELSE CachedCall("geo", Args(location, Null, Null, 0), c, t, rgeo).ret
    IN  IF g = None THEN { NoAnswer }
        ELSE IF g.lat.t # "num" \/ g.lon.t # "num" THEN { NoAnswer }
        ELSE IF GoesUpstream(tier, Args("", g.lat, g.lon, days), c, t) THEN R[tier]
        ELSE { NoAnswer }

Answers(rg, rc, rf, ra) == [geo |-> rg, current |-> rc, forecast |-> rf, aqi |-> ra]

\* the answers the turns of SpecTurn draw from: per request a failure and a
\* success, and for the geocoder also no match and a coordinate given as text
TurnResponses ==
    [tier \in Tiers |->
    CASE tier = "geo" ->
            { Resp(500, FALSE, <<>>), Resp(200, TRUE, <<>>),
              Resp(200, TRUE, << GeoTop(Str("Pune"), Num(1852041), Num(7385674)) >>),
              Resp(200, TRUE, << GeoTop(Str("Pune"), Str("18.52"), Str("73.85")) >>) }
      [] tier = "current" ->
            { Resp(500, FALSE, <<>>),
              Resp(200, TRUE, CurrentDoc(<< "clear sky" >>, Num(20))) }
      [] tier = "forecast" ->
            { Resp(0, FALSE, <<>>),
              Resp(200, TRUE, << Sample(Num(DaySeconds), Num(20), Num(4), Num(50)) >>) }
      [] tier = "aqi" ->
            { Resp(200, FALSE, <<>>), Resp(200, TRUE, << Num(1) >>) }]

\* main.py 302-472: POST /chat/stream for a chat of the user, up to the
\* StreamingResponse that starts generate()
Turn ==
    /\ turn.phase = "idle"
    /\ turns < MaxTurns
    /\ turns' = turns + 1
    /\ \E q \in Queries :
       \E location \in { ResolveLocation(q, last_location) } :
       \E rg \in GeoAnswers(TurnResponses, location, cache, now) :
       \E rc \in CoordAnswers(TurnResponses, "current", location, 5, cache, now, rg),
          rf \in CoordAnswers(TurnResponses, "forecast", location, 5, cache, now, rg),
          ra \in CoordAnswers(TurnResponses, "aqi", location, 5, cache, now, rg) :
       \E writeOk \in BOOLEAN :
       \E w \in { WeatherForTurn(location, last_location, cache, now,
                                  Answers(rg, rc, rf, ra), writeOk) } :
          LET history == Append(chats, [role |-> "user", message |-> q.text])
          IN  /\ writeOk \/ w.packet # None
              /\ chats' = history
              /\ cache' = w.cache
              /\ last_location' = w.last_location
              /\ messages' = IF w.failed THEN << >>
                             ELSE AssembleMessages(location, w, history, q.text)
              /\ turn' = [phase |-> IF w.failed THEN "error" ELSE "streaming",
                          text |-> q.text, location |-> location,
                          build |-> [w.build EXCEPT !.cache = << >>],
                          write_ok |-> writeOk]
    /\ UNCHANGED <<owm_key, now, ticks, calls, focus, call, last_write, built>>
    /\ UNCHANGED <<relayVars, fnVars>>

\* main.py 301-311: the chat is not one of the user's, 404
TurnRejected ==
    /\ turn.phase = "idle"
    /\ turns < MaxTurns
    /\ turns' = turns + 1
    /\ turn' = [NoTurn EXCEPT !.phase = "rejected"]
    /\ messages' = << >>
    /\ UNCHANGED <<chats, last_location, cacheVars>>
    /\ UNCHANGED <<relayVars, fnVars>>

\* main.py 406-470 as a whole: generate() ends, with the assistant row saved
\* (COMPLETED) or not (CANCELLED, FAILED, a failing INSERT)
StreamEndsForgetsLocation ==
    /\ turn.phase \in {"streaming", "rejected", "error"}
    /\ \E saved \in {"", "a"} :
          /\ chats' = IF turn.phase = "streaming" /\ saved # ""
                      THEN Append(chats, [role |-> "assistant", message |-> saved])
                      ELSE chats
          /\ last_location' = IF saved = "" THEN "" ELSE last_location
    /\ turn' = NoTurn
    /\ messages' = << >>
    /\ UNCHANGED <<turns, cacheVars>>
    /\ UNCHANGED <<relayVars, fnVars>>

StreamEnds ==
    /\ turn.phase \in {"streaming", "rejected", "error"}
    /\ \E saved \in {"", "a"} :
          chats' = IF turn.phase = "streaming" /\ saved # ""
                   THEN Append(chats, [role |-> "assistant", message |-> saved])
                   ELSE chats
    /\ turn' = NoTurn
    /\ messages' = << >>
    /\ UNCHANGED <<last_location, turns, cacheVars>>
    /\ UNCHANGED <<relayVars, fnVars>>

TurnNext ==
    \/ Turn
    \/ TurnRejected
    \/ StreamEnds

vars == <<relayVars, cacheVars, turnVars, fnVars>>

\* the relay while no turn streams, the caches while none is used, the chat
\* before its first turn
RelayIdle == RelayInit
CacheIdle ==
    /\ owm_key = TRUE
    /\ cache = EmptyCaches
    /\ now = 0
    /\ ticks = 0
    /\ calls = 0
    /\ focus = "geo"
    /\ call = [p \in Threads |-> IdleCall]
    /\ last_write = NoEntry
    /\ built = NoBuild
TurnIdle == TurnInit

Pending == [done |-> FALSE]
FnIdle ==
    /\ input = << >>
    /\ output = Pending

RelayNext ==
    \/ OpenStream
    \/ ReadChunk
    \/ EndOfStream
    \/ StreamError
    \/ ClientDisconnect

RelaySpecInit == RelayInit /\ CacheIdle /\ TurnIdle /\ FnIdle

SpecRelay == RelaySpecInit /\ [][RelayNext]_vars

\* main.py 410 (timeout=None), 412, 427: the relay waits for the backend
\* without a time limit; here the backend does in the end answer the request,
\* and close or fail the stream
BackendEnds == OpenStream \/ EndOfStream \/ StreamError

SpecRelayLive == SpecRelay /\ WF_vars(BackendEnds)

CacheSpecInit == CacheInit /\ RelayIdle /\ TurnIdle /\ FnIdle

SpecCache == CacheSpecInit /\ [][CacheNext]_vars

(***************************************************************************)
(* SpecPacket: calls of build_weather_packet, one after the other at one    *)
(* reading of the clock, with every answer of the provider (expiry is the  *)
(* subject of SpecCache)                                                   *)
(***************************************************************************)
AllResponses == [tier \in Tiers |-> Responses(tier)]

PacketInit ==
    /\ owm_key \in BOOLEAN
    /\ cache = EmptyCaches
    /\ now = 0
    /\ ticks = 0
    /\ calls = 0
    /\ focus = "geo"
    /\ call = [p \in Threads |-> IdleCall]
    /\ last_write = NoEntry
    /\ built = NoBuild

\* weather.py 234-260: one call of build_weather_packet
Build ==
    /\ \E location \in Locations \cup {""}, days \in DayCounts :
       \E rg \in GeoAnswers(AllResponses, location, cache, now) :
       \E rc \in CoordAnswers(AllResponses, "current", location, days, cache, now, rg),
          rf \in CoordAnswers(AllResponses, "forecast", location, days, cache, now, rg),
          ra \in CoordAnswers(AllResponses, "aqi", location, days, cache, now, rg) :
       \E b \in { BuildWeatherPacket(location, days, cache, now, Answers(rg, rc, rf, ra)) } :
          /\ cache' = b.cache
          /\ built' = [location |-> location, days |-> days, kind |-> b.kind,
                       packet |-> b.packet, geo |-> b.geo, how |-> b.how]
    /\ UNCHANGED <<owm_key, now, ticks, calls, focus, call, last_write>>
    /\ UNCHANGED <<relayVars, turnVars, fnVars>>

PacketNext ==
    \/ Build

PacketSpecInit == PacketInit /\ RelayIdle /\ TurnIdle /\ FnIdle

SpecPacket == PacketSpecInit /\ [][PacketNext]_vars

\* the chat's turns: the caches are empty at start-up, the key is set or not
TurnSpecInit ==
    /\ TurnInit
    /\ RelayIdle
    /\ FnIdle
    /\ owm_key \in BOOLEAN
    /\ cache = EmptyCaches
    /\ now = 0
    /\ ticks = 0
    /\ calls = 0
    /\ focus = "geo"
    /\ call = [p \in Threads |-> IdleCall]
    /\ last_write = NoEntry
    /\ built = NoBuild

SpecTurn == TurnSpecInit /\ [][TurnNext]_vars

(***************************************************************************)
(* SpecWeather: the chat's turns, and between them calls of the four       *)
(* fetchers of weather.py on their own, with or without a credential       *)
(***************************************************************************)
\* the arguments of a call of a fetcher on its own: those of ArgsOf, and for
\* the coordinate fetchers a coordinate that is not a number
FetchArgs(tier) ==
    ArgsOf(tier) \cup
        (IF tier = "geo" THEN {}
         ELSE { Args("", Str("18.52"), Str("73.85"), IF tier = "forecast" THEN 5 ELSE 0) })

\* weather.py 87-90, 131-134, 195-198: the credential is looked at first, then
\* the key is formatted (which raises for a coordinate that is not a number),
\* then the cache is read
FetchCallKeyFirst(tier, a, c, t, resp) ==
    IF KeyRaises(tier, a) THEN [ret |-> None, cache |-> c, how |-> "raise"]
    ELSE CachedCall(tier, a, c, t, resp)

FetchCall(tier, a, c, t, resp) ==
    IF ~owm_key THEN [ret |-> None, cache |-> c, how |-> "nokey"]
    ELSE IF KeyRaises(tier, a) THEN [ret |-> None, cache |-> c, how |-> "raise"]
    ELSE CachedCall(tier, a, c, t, resp)

\* weather.py 42-80, 86-124, 130-188, 194-228: one call of one fetcher
Fetch ==
    /\ turn.phase = "idle"
    /\ calls < MaxCalls
    /\ calls' = calls + 1
    /\ \E tier \in Tiers :
       \E a \in FetchArgs(tier) :
       \E resp \in (IF ~owm_key \/ KeyRaises(tier, a) THEN { NoAnswer }
                    ELSE IF GoesUpstream(tier, a, cache, now)
                    THEN TurnResponses[tier] ELSE { NoAnswer }) :
       \E r \in { FetchCall(tier, a, cache, now, resp) } :
          /\ cache' = r.cache
          /\ output' = [done |-> TRUE, tier |-> tier, args |-> a,
                        absent |-> r.ret = None /\ r.how # "raise", how |-> r.how]
    /\ UNCHANGED <<input, owm_key, now, ticks, focus, call, last_write, built>>
    /\ UNCHANGED <<relayVars, turnVars>>

WeatherNext ==
    \/ Fetch
    \/ Turn
    \/ TurnRejected
    \/ StreamEnds

WeatherSpecInit == TurnSpecInit

SpecWeather == WeatherSpecInit /\ [][WeatherNext]_vars

(***************************************************************************)
(* SpecResolve: the location of a turn (main.py 330-333) for every query   *)
(* of up to MaxWords words and a chat with or without a stored location    *)
(***************************************************************************)
Vocabulary == Words \ {"ok", "at"}
StoredLocations == {"", "Pune"}

ResolveInit ==
    /\ input \in [words : SeqsUpTo(Vocabulary, MaxWords), last : StoredLocations]
    /\ output = Pending

\* main.py 331-333
Resolve ==
    /\ output = Pending
    /\ output' = [done |-> TRUE,
                  extracted |-> ExtractLocation(input.words),
                  followup |-> IsWeatherFollowup(input.words),
                  location |-> ResolveLocation(Query(input.words), input.last)]
    /\ UNCHANGED input
    /\ UNCHANGED <<relayVars, cacheVars, turnVars>>

ResolveNext ==
    \/ Resolve

ResolveSpecInit == ResolveInit /\ RelayIdle /\ CacheIdle /\ TurnIdle

SpecResolve == ResolveSpecInit /\ [][ResolveNext]_vars

(***************************************************************************)
(* SpecForecast: _fetch_forecast_by_coord (weather.py 130-188) called for  *)
(* one place with different day counts, the provider answering with one    *)
(* list of up to MaxSamples samples                                        *)
(***************************************************************************)
MaxSamples == 3      \* samples in the provider's forecast

\* main.temp, wind.speed and main.humidity of a sample
Readings ==
    { << Null, Num(2), Null >>, << Num(20), Null, Num(50) >>,
      << Num(25), Num(4), Num(60) >>, << Num(30), Num(2), Num(50) >> }

\* samples of the first two days of the epoch, and samples without dt
ForecastSamples ==
    { Sample(dt, x[1], x[2], x[3]) :
        dt \in {Null, Num(3600), Num(DaySeconds - 1), Num(DaySeconds)}, x \in Readings }

ForecastInit ==
    /\ input \in [samples : SeqsUpTo(ForecastSamples, MaxSamples)]
    /\ output = Pending

\* weather.py 130-188: one call
FetchForecast ==
    /\ \E days \in DayCounts :
          LET place == CHOOSE c \in Coords : TRUE
              a == Args("", Num(place[1]), Num(place[2]), days)
              r == CachedCall("forecast", a, cache, now, Resp(200, TRUE, input.samples))
          IN  /\ cache' = r.cache
              /\ output' = [done |-> TRUE, days |-> days, ret |-> r.ret, how |-> r.how]
    /\ UNCHANGED <<input, owm_key, now, ticks, calls, focus, call, last_write, built>>
    /\ UNCHANGED <<relayVars, turnVars>>

ForecastNext ==
    \/ FetchForecast

ForecastSpecInit == ForecastInit /\ RelayIdle /\ CacheIdle /\ TurnIdle

SpecForecast == ForecastSpecInit /\ [][ForecastNext]_vars

(***************************************************************************)
(* SpecDescription: common_description of one day of the forecast          *)
(* (weather.py 162, 179), on every list of descriptions of a day           *)
(***************************************************************************)
MaxDescs == 4        \* samples of the day

\* weather.py 162: weather[0].description of a sample, None when it is missing
Descriptions == { Str("clear sky"), Str("light rain"), Null }

\* weather.py 179: e["desc"].count
CountOf(descs, d) == Cardinality({ i \in 1..Len(descs) : descs[i] = d })

\* weather.py 179: set(e["desc"])
DescSet(descs) == { descs[i] : i \in 1..Len(descs) }

\* weather.py 179: the members of set(e["desc"]) with the highest count
Modes(descs) ==
    { d \in DescSet(descs) : \A e \in DescSet(descs) : CountOf(descs, e) <= CountOf(descs, d) }

\* weather.py 179: max(set(e["desc"]), key=e["desc"].count) returns the first
\* member with the highest count in the iteration order of the set; that order
\* follows the hashes of the strings, which differ from one process to the
\* next, so any of the members with the highest count can be the result
CommonDescriptions(descs) == IF descs = << >> THEN { Null } ELSE Modes(descs)

\* weather.py 158-162: a day exists in daily once a sample was appended to it
DescriptionInit ==
    /\ input \in [descs : SeqsUpTo(Descriptions, MaxDescs) \ { << >> }]
    /\ output = Pending

\* weather.py 179
Describe ==
    /\ ~output.done
    /\ \E d \in CommonDescriptions(input.descs) :
          output' = [done |-> TRUE, common_description |-> d]
    /\ UNCHANGED input
    /\ UNCHANGED <<relayVars, cacheVars, turnVars>>

DescriptionNext ==
    \/ Describe

DescriptionSpecInit == DescriptionInit /\ RelayIdle /\ CacheIdle /\ TurnIdle

SpecDescription == DescriptionSpecInit /\ [][DescriptionNext]_vars

(***************************************************************************)
(* Claims about the relay (SpecRelay)                                      *)
(***************************************************************************)
ErrorTokens == {"Network error: e", "Unexpected error: e"}

\* what the client is to see of one line: the raw text of a line whose
\* parsing or token extraction fails, the token of a line that carries one,
\* nothing for a blank line or a JSON object without a (non-empty) token
TokensOfLine(line) ==
    IF line.raw \in {"", " "} THEN <<>>
    ELSE IF line.jk # "object" \/ line.mk = "nondict" \/ line.ck = "nonstr"
         THEN << line.raw >>
    ELSE IF line.mk = "dict" /\ line.ck = "str" /\ line.content # ""
         THEN << line.content >>
    ELSE <<>>

\* the reading under which every non-blank line without a token is passed on raw
RawUnlessToken(line) ==
    IF line.raw \in {"", " "} THEN <<>>
    ELSE IF line.jk = "object" /\ line.mk = "dict" /\ line.ck = "str" /\ line.content # ""
         THEN << line.content >>
    ELSE << line.raw >>

RECURSIVE FlatMap(_, _)
FlatMap(Op(_), seq) ==
    IF seq = <<>> THEN <<>> ELSE Op(Head(seq)) \o FlatMap(Op, Tail(seq))

TokensOfChunk(chunk) == FlatMap(TokensOfLine, chunk)
TokensOfChunks(chunks) == FlatMap(TokensOfChunk, chunks)
RawUnlessTokenChunk(chunk) == FlatMap(RawUnlessToken, chunk)

RECURSIVE Concat(_)
Concat(strs) == IF strs = <<>> THEN "" ELSE Head(strs) \o Concat(Tail(strs))

Front(seq) == SubSeq(seq, 1, Len(seq) - 1)

\* C1: when the disconnect is detected at the check made before chunk k+1, the
\* client has received exactly the tokens of the first k chunks in order,
\* nothing of a later chunk was emitted or accumulated, and no assistant row
\* was saved.
C1_Cancellation ==
    rstate = "CANCELLED" =>
        /\ cancelled
        /\ emitted = TokensOfChunks(delivered)
        /\ full_response = Concat(TokensOfChunks(delivered))
        /\ assistant_rows = <<>>

C1_Witness ==
    /\ rstate = "CANCELLED"
    /\ Len(delivered) = MaxChunks
    /\ Len(emitted) >= 2
    /\ assistant_rows = <<>>

\* C2: when the stream is exhausted after a 200 answer without a detected
\* disconnect, the saved assistant row is the concatenation of the emitted
\* tokens in emission order, and that order is the arrival order of the lines.
C2_Completion ==
    rstate = "COMPLETED" =>
        /\ ~cancelled
        /\ resp_status = 200
        /\ emitted = TokensOfChunks(delivered)
        /\ assistant_rows \in { <<>>, << Concat(emitted) >> }
        /\ full_response = Concat(emitted)

C2_Witness ==
    /\ rstate = "COMPLETED"
    /\ assistant_rows = << Concat(emitted) >>
    /\ Len(emitted) >= 2
    /\ emitted[1] # emitted[2]

\* C3: a non-200 answer leads from IDLE to FAILED, the provider's error text
\* is the only output, no chunk is relayed and nothing is saved.
C3_BackendErrorText ==
    (rstate = "FAILED" /\ resp_status \notin {0, 200}) =>
        /\ emitted = << "LLM model error: " \o resp_body >>
        /\ delivered = <<>>
        /\ assistant_rows = <<>>

\* C4: an exception after k >= 0 chunks yields exactly one error token after
\* the tokens already emitted, nothing afterwards, and nothing is saved: the
\* text accumulated from the k chunks is dropped.
C4_FailedState ==
    (rstate = "FAILED" /\ resp_status \in {0, 200}) =>
        /\ emitted # <<>>
        /\ emitted[Len(emitted)] \in ErrorTokens
        /\ Front(emitted) = TokensOfChunks(delivered)
        /\ assistant_rows = <<>>

C4_MidStreamFailure ==
    /\ []C4_FailedState
    /\ [][rstate = "FAILED" =>
            (rstate' = "FAILED" /\ emitted' = emitted /\ assistant_rows' = assistant_rows)]_vars

C4_Witness ==
    /\ rstate = "FAILED"
    /\ resp_status = 200
    /\ Len(delivered) >= 1
    /\ full_response # ""
    /\ assistant_rows = <<>>

\* C5 as claimed: every non-blank line that is not a JSON object carrying a
\* content token is emitted raw and appended verbatim.
C5_RawUnlessToken ==
    rstate \in {"STREAMING", "COMPLETED", "CANCELLED"} =>
        /\ emitted = FlatMap(RawUnlessTokenChunk, delivered)
        /\ full_response = Concat(emitted)

\* C5: every non-blank line on which json.loads or the extraction of
\* message.content raises is emitted raw and appended verbatim, a line that
\* parses to a JSON object without a non-empty content token is skipped, and a
\* parse failure never moves the relay to FAILED.
C5_TokensRelayed ==
    LET relayed == IF rstate = "FAILED" THEN Front(emitted) ELSE emitted
    IN  /\ relayed = TokensOfChunks(delivered)
        /\ full_response = Concat(relayed)
        /\ rstate = "FAILED" =>
              emitted[Len(emitted)] \in
                  ErrorTokens \cup { ModelErrorToken(b) : b \in ErrorBodies }

C5_ParseFallback ==
    /\ []C5_TokensRelayed
    /\ [][delivered' # delivered => rstate' = "STREAMING"]_vars

C5_Witness ==
    /\ rstate = "STREAMING"
    /\ \E i \in 1..Len(delivered) : \E j \in 1..Len(delivered[i]) :
          /\ delivered[i][j].jk = "nonobject"
          /\ delivered[i][j].raw \in { emitted[n] : n \in 1..Len(emitted) }
    /\ \E i \in 1..Len(delivered) : \E j \in 1..Len(delivered[i]) :
          delivered[i][j].ck = "empty"

(***************************************************************************)
(* Claims about the caches (SpecCache)                                     *)
(***************************************************************************)
\* the four TTLs as stated: 24 h, 5 min, 10 min, 1 h
StatedTTL(tier) ==
    CASE tier = "geo" -> 86400
      [] tier = "current" -> 300
      [] tier = "forecast" -> 600
      [] tier = "aqi" -> 3600

\* C6: in each tier a lookup of a key less than TTL after its last successful
\* fetch returns the cached value without an upstream call; a lookup at TTL or
\* later (or of an absent key) is a miss that calls upstream and, on success,
\* replaces the entry by the new value with the time of the store.
C6_CacheTTL ==
    [][\A p \in Threads :
          LET key == KeyOf(focus, call'[p].args)
              e == CacheGet(cache[focus], key)
          IN  /\ (owm_key /\ call[p].pc = "idle" /\ call'[p].pc # "idle") =>
                    /\ cache' = cache
                    /\ IF e.present /\ now - e.at < StatedTTL(focus)
                       THEN /\ call'[p].pc = "done"
                            /\ call'[p].upstream = 0
                            /\ call'[p].ret = e.value
                       ELSE call'[p].pc = "fetching"
              /\ (call[p].pc = "fetching" /\ call'[p].pc = "done") =>
                    /\ call'[p].upstream = 1
                    /\ call'[p].ret # None =>
                          /\ key \in DOMAIN cache'[focus]
                          /\ cache'[focus][key] = [value |-> call'[p].ret, at |-> now]
                    /\ call'[p].ret = None => cache' = cache
    ]_vars

\* a hit one second before the 24 hours of the geocode tier are over
C6_Witness ==
    /\ focus = "geo"
    /\ \E p \in Threads :
          /\ call[p].pc = "done"
          /\ call[p].upstream = 0
          /\ call[p].ret # None
          /\ cache[focus][KeyOf(focus, call[p].args)].value = call[p].ret
          /\ now - cache[focus][KeyOf(focus, call[p].args)].at = 86400 - 1

WeatherParts == {"current", "forecast", "aqi"}

\* the geocoder's result is there and has a number for lat and for lon
HasCoordinate(geo) == geo # None /\ geo.lat.t = "num" /\ geo.lon.t = "num"

\* C8: build_weather_packet returns absent whenever geocoding yields no
\* result or a result without both lat and lon; whatever the provider does it
\* returns a packet or absent and never raises; a packet has lat and lon
\* both non-null.
C8_PacketOrAbsent ==
    built.kind # "none" =>
        /\ built.kind \in {"packet", "absent"}
        /\ (built.geo = None => built.kind = "absent")
        /\ (built.geo # None /\ (built.geo.lat = Null \/ built.geo.lon = Null)
               => built.kind = "absent")
        /\ (built.kind = "packet"
               => built.packet.lat # Null /\ built.packet.lon # Null)

WeatherTexts == {"Weather summary for ", "WEATHER_PACKET_JSON:"}

\* C10: whatever the weather path does (no location, no geocode result, an
\* exception of the weather engine, a failing write of last_location), the
\* turn of a chat of the user assembles the message list, from the system
\* prompt to the user's message, and opens the stream; without a packet
\* the list has neither the summary message nor the WEATHER_PACKET_JSON
\* message.
C10_WeatherNeverFailsTurn ==
    turn.phase \notin {"idle", "rejected"} =>
        /\ turn.phase = "streaming"
        /\ Len(messages) >= 2
        /\ messages[1] = Message("system", SystemPrompt)
        /\ messages[Len(messages)] = Message("user", Content(turn.text, None))
        /\ (turn.build.kind # "packet" =>
               \A i \in 1..Len(messages) :
                   messages[i].content.text \notin WeatherTexts)

C10_Witness ==
    /\ turn.phase = "streaming"
    /\ turn.location # ""
    /\ turn.build.kind = "raise"
    /\ messages # << >>

\* the messages between the weather block (or the system prompt) and the
\* current user message
WeatherBlockEnd == IF turn.build.kind = "packet" THEN 3 ELSE 1
HistorySection == SubSeq(messages, WeatherBlockEnd + 1, Len(messages) - 1)

\* C11: in the assembled list the system prompt is first and the current
\* user message last; with a packet the summary message is second and the
\* WEATHER_PACKET_JSON message third, both ahead of the history; without a
\* packet neither is there; the history messages are the stored rows in
\* their order, each with its role.
C11_PromptOrder ==
    turn.phase = "streaming" =>
        /\ messages[1] = Message("system", SystemPrompt)
        /\ messages[Len(messages)] = Message("user", Content(turn.text, None))
        /\ (turn.build.kind = "packet" =>
               /\ messages[2].role = "system"
               /\ messages[2].content.text = "Weather summary for "
               /\ messages[3] = Message("system",
                                        Content("WEATHER_PACKET_JSON:", turn.build.packet)))
        /\ Len(messages) = WeatherBlockEnd + Len(chats) + 1
        /\ \A i \in 1..Len(chats) :
              messages[WeatherBlockEnd + i]
                  = Message(chats[i].role, Content(chats[i].message, None))
        /\ (turn.build.kind # "packet" =>
               \A i \in 1..Len(messages) :
                   messages[i].role = "system" => messages[i] = Message("system", SystemPrompt))

C11_Witness ==
    /\ turn.phase = "streaming"
    /\ turn.build.kind = "packet"
    /\ Len(chats) >= 3
    /\ \E i \in 1..Len(chats) : chats[i].role = "assistant"
    /\ messages[3].content.text = "WEATHER_PACKET_JSON:"
    /\ messages[4].role = "user"

\* C12: the history section of the list is the conversation stored before
\* this turn, so the current user message is in the list once, as its last
\* element; on the first turn of a chat with a packet the list is the system
\* prompt, the summary, the packet and the user message.
C12_HistoryIsPrior ==
    turn.phase = "streaming" =>
        /\ HistorySection = HistoryMessages(Front(chats))
        /\ (Len(chats) = 1 /\ turn.build.kind = "packet" =>
               /\ Len(messages) = 4
               /\ messages[3].content.text = "WEATHER_PACKET_JSON:"
               /\ messages[4] = Message("user", Content(turn.text, None)))

(***************************************************************************)
(* Claims about the location of a turn (SpecResolve)                       *)
(***************************************************************************)
\* the stop-words the specification names
StatedStopWords == {"the", "at", "in", "for", "near", "th", "is", "present"}

\* C13: with "Pune" stored as the chat's last location, the query "what about
\* tomorrow" resolves to "Pune".
C13_FollowUpExample ==
    (output.done /\ input.words = << "what", "about", "tomorrow" >> /\ input.last = "Pune")
        => output.location = "Pune"

\* the X of a query of the form "weather in X", "temperature in X" or
\* "X weather"
PhraseFormsOf(words) ==
    (IF Len(words) >= 3 /\ words[2] = "in" /\ words[1] \in {"weather", "temperature"}
     THEN { SubSeq(words, 3, Len(words)) } ELSE {})
    \cup
    (IF Len(words) >= 2 /\ words[Len(words)] = "weather"
     THEN { SubSeq(words, 1, Len(words) - 1) } ELSE {})

StatedNormalForm(X) == Strip(RemoveStopWords(X, StatedStopWords))

\* C14: for a query "weather in X", "temperature in X" or "X weather" whose X
\* is longer than two characters once the stop-words are removed,
\* extract_location returns that X, stop-words removed, in title case.
C14_PhraseForms ==
    output.done =>
        \A X \in PhraseFormsOf(input.words) :
            CharLen(StatedNormalForm(X)) > 2 => output.extracted = Title(StatedNormalForm(X))

\* C15: every candidate is normalized alike, all of the stop-words removed,
\* so no location extract_location returns has one of them as a word.
C15_UniformNormalization ==
    output.done =>
        \A i \in 1..Len(output.extracted) :
            output.extracted[i] \notin { TitleWord(w) : w \in StatedStopWords \cap Words }

\* C16: the location of the turn is the extracted candidate when there is
\* one; without one it is the stored last_location (which may be none) when
\* the query has a weather keyword or a follow-up cue, and none otherwise.
C16_FollowUpRule ==
    output.done =>
        output.location =
            IF output.extracted # << >> THEN Join(output.extracted)
            ELSE IF output.followup THEN input.last
            ELSE ""

C16_Witness ==
    /\ output.done
    /\ output.extracted = << >>
    /\ output.followup
    /\ input.last = "Pune"
    /\ output.location = "Pune"

(***************************************************************************)
(* Claims about the forecast (SpecForecast)                                *)
(***************************************************************************)
\* the samples of the provider's list that fall on a day, by their position
SamplesOn(day) ==
    { i \in 1..Len(input.samples) : DayOf(input.samples[i].dt, now) = day }

\* the non-null readings of one field on a day: position -> value
ReadingsOn(day, field) ==
    [i \in { j \in SamplesOn(day) : input.samples[j][field] # Null }
        |-> input.samples[i][field].v]

RECURSIVE Total(_)
Total(f) ==
    IF DOMAIN f = {} THEN 0
    ELSE LET i == CHOOSE j \in DOMAIN f : TRUE
         IN  f[i] + Total([j \in DOMAIN f \ {i} |-> f[j]])

\* mean is absent without readings, else their arithmetic mean
IsMeanOf(mean, f) ==
    IF DOMAIN f = {} THEN mean = Null
    ELSE /\ mean # Null
         /\ mean.num = Total(f)
         /\ mean.den = Cardinality(DOMAIN f)

IsLeastOf(x, f) ==
    IF DOMAIN f = {} THEN x = Null
    ELSE x # Null /\ (\E i \in DOMAIN f : f[i] = x.v) /\ (\A i \in DOMAIN f : x.v <= f[i])

IsGreatestOf(x, f) ==
    IF DOMAIN f = {} THEN x = Null
    ELSE x # Null /\ (\E i \in DOMAIN f : f[i] = x.v) /\ (\A i \in DOMAIN f : x.v >= f[i])

\* C17: per UTC day, temp_min_c, temp_max_c and temp_avg_c are the least, the
\* greatest and the mean of the day's non-null temperatures, wind_avg_m_s
\* and humidity_avg the means of their non-null samples; a field without a
\* non-null sample is absent, not zero.
C17_Aggregation ==
    (output.done /\ output.ret # None) =>
        \A k \in 1..Len(output.ret.daily) :
            LET e == output.ret.daily[k]
            IN  /\ IsLeastOf(e.temp_min_c, ReadingsOn(e.date, "temp"))
                /\ IsGreatestOf(e.temp_max_c, ReadingsOn(e.date, "temp"))
                /\ IsMeanOf(e.temp_avg_c, ReadingsOn(e.date, "temp"))
                /\ IsMeanOf(e.wind_avg_m_s, ReadingsOn(e.date, "wind"))
                /\ IsMeanOf(e.humidity_avg, ReadingsOn(e.date, "hum"))

\* a day with the temperatures 20, 25 and 30 reports 20, 30 and 25, and a
\* day without a temperature reports none
C17_Witness ==
    /\ output.done /\ output.ret # None
    /\ Len(input.samples) = 3
    /\ \E k \in 1..Len(output.ret.daily) :
          LET e == output.ret.daily[k]
          IN  /\ SamplesOn(e.date) = {1, 2, 3}
              /\ { input.samples[i].temp : i \in 1..3 } = {Num(20), Num(25), Num(30)}
              /\ e.temp_min_c = Num(20)
              /\ e.temp_max_c = Num(30)
              /\ e.temp_avg_c.num = 25 * e.temp_avg_c.den

DistinctDates == { DayOf(input.samples[i].dt, now) : i \in 1..Len(input.samples) }

AtMost(a, b) == IF a < b THEN a ELSE b

\* a forecast for the day count days: the earliest min(days, number of dates)
\* dates, each once, in ascending order
HasShape(forecast, days) ==
    LET dates == { forecast.daily[i].date : i \in 1..Len(forecast.daily) }
    IN  /\ Len(forecast.daily) = AtMost(days, Cardinality(DistinctDates))
        /\ \A i, j \in 1..Len(forecast.daily) :
              i < j => forecast.daily[i].date < forecast.daily[j].date
        /\ dates \subseteq DistinctDates
        /\ \A x \in DistinctDates \ dates : \A y \in dates : y < x

\* C18: whatever the samples and the day count, the forecast returned lists
\* each UTC date once, in ascending order, the earliest min(days, number of
\* dates) of them; what is cached for one day count is not returned for
\* another.
C18_ForecastShape ==
    /\ (output.done /\ output.ret # None) => HasShape(output.ret, output.days)
    /\ \A key \in DOMAIN cache.forecast :
          Len(key) = 4 /\ HasShape(cache.forecast[key].value, key[4])

C18_Witness ==
    /\ output.done
    /\ output.how = "hit"
    /\ output.days = 1
    /\ Cardinality(DistinctDates) = 2
    /\ Len(output.ret.daily) = 1
    /\ \E key \in DOMAIN cache.forecast :
          Len(key) = 4 /\ key[4] = 5 /\ Len(cache.forecast[key].value.daily) = 2
    /\ DayOf(input.samples[1].dt, now) > DayOf(input.samples[2].dt, now)

(***************************************************************************)
(* Claims about the turns and the fetchers together (SpecWeather)          *)
(***************************************************************************)
\* C19: without a credential every fetcher and build_weather_packet return
\* absent before any request and before any cache is read or written, none
\* raises, and the chat turn goes on to the stream without a weather
\* message.
C19_NoCredential ==
    ~owm_key =>
        /\ cache = EmptyCaches
        /\ (output.done => output.absent /\ output.how = "nokey")
        /\ (turn.phase \notin {"idle", "rejected"} =>
               /\ turn.phase = "streaming"
               /\ turn.build.kind = "absent"
               /\ turn.build.how.geo \in {"nokey", "skipped"}
               /\ \A part \in WeatherParts : turn.build.how[part] = "skipped"
               /\ \A i \in 1..Len(messages) :
                     messages[i].content.text \notin WeatherTexts)

C19_Witness ==
    /\ ~owm_key
    /\ output.done /\ output.tier = "aqi" /\ output.how = "nokey"
    /\ KeyRaises("aqi", output.args)
    /\ turn.phase = "streaming"
    /\ turn.location = "Pune"
    /\ turn.build.how.geo = "nokey"
    /\ Len(messages) >= 2

\* C20: a turn with a location whose geocoding gives a result writes the
\* location to the chat's last_location, also when current conditions,
\* forecast and air quality are all absent; when the write fails the turn
\* goes on and the packet of this turn is in the prompt.
C20_PersistLocation ==
    (turn.phase \notin {"idle", "rejected"} /\ turn.location # ""
        /\ turn.build.geo # None) =>
        /\ turn.phase = "streaming"
        /\ turn.build.kind = "packet"
        /\ (turn.write_ok => last_location = turn.location)
        /\ Len(messages) >= 4
        /\ messages[3] = Message("system",
                                 Content("WEATHER_PACKET_JSON:", turn.build.packet))

(***************************************************************************)
(* Claims about the common description (SpecDescription)                   *)
(***************************************************************************)
\* the first description, in the order of the samples, among those with the
\* highest count
FirstMode(descs) ==
    descs[CHOOSE i \in 1..Len(descs) :
             /\ descs[i] \in Modes(descs)
             /\ \A j \in 1..(i - 1) : descs[j] \notin Modes(descs)]

\* C21: common_description is the most frequent description of the day, and
\* among several with the highest count the one met first in the order of the
\* samples.
C21_ModeFirstEncountered ==
    output.done =>
        /\ output.common_description \in Modes(input.descs)
        /\ output.common_description = FirstMode(input.descs)

(***************************************************************************)
(* More claims about extract_location (SpecResolve)                        *)
(***************************************************************************)
\* the patterns that match the query, and whether the reverse pattern does
MatchingPatterns(words) ==
    { k \in 1..Len(Patterns) : MatchStarts(words, Patterns[k]) # {} }

ReverseMatches(words) == \E j \in 2..Len(words) : words[j] \in ReverseKeywords

\* first match wins: the candidate of the first pattern that matches, else
\* that of the reverse pattern when it matches, else that of the trailing
\* words; a candidate that is rejected leaves no location
FirstMatchWins(words) ==
    IF MatchingPatterns(words) # {}
    THEN Normalize(Capture(words, Patterns[Least(MatchingPatterns(words))]),
                   StopWordsPattern)
    ELSE IF ReverseMatches(words) THEN ReverseStage(words)
    ELSE FallbackStage(words, 3)

\* C22: the location extracted comes from the first pattern that matches the
\* query; a later pattern, the reverse pattern and the trailing words are
\* consulted only when nothing before them matched.
C22_FirstMatchWins ==
    output.done => output.extracted = FirstMatchWins(input.words)

(***************************************************************************)
(* More claims about build_weather_packet and its caches (SpecPacket)      *)
(***************************************************************************)
\* C23: what geocode_location returns, and every entry of the geocode cache,
\* is absent or has both lat and lon non-null.
C23_GeoResultHasBoth ==
    /\ (built.kind # "none" /\ built.geo # None) =>
           built.geo.lat # Null /\ built.geo.lon # Null
    /\ \A key \in DOMAIN cache.geo :
           cache.geo[key].value.lat # Null /\ cache.geo[key].value.lon # Null

(***************************************************************************)
(* Claims about the relay's cancellation and termination (SpecRelayLive)   *)
(***************************************************************************)
Terminal == {"COMPLETED", "CANCELLED", "FAILED"}

\* a step of the relay after the client has gone: the next chunk cancels it
\* before anything of the chunk is yielded; a closed stream completes it and
\* the accumulated text is saved (unless the INSERT fails)
AfterDisconnect ==
    (rstate = "STREAMING" /\ disconnected) =>
        /\ rstate' \in Terminal
        /\ emitted' = emitted \/ rstate' = "FAILED"
        /\ full_response' = full_response
        /\ (rstate' = "CANCELLED" => cancelled' /\ assistant_rows' = assistant_rows)
        /\ (rstate' = "COMPLETED" =>
               /\ ~cancelled'
               /\ assistant_rows' \in { assistant_rows,
                                        Append(assistant_rows, full_response) })

\* CANCELLED is entered from STREAMING only, by the check at a chunk
CancelledAtChunk ==
    (rstate' = "CANCELLED" /\ rstate # "CANCELLED") =>
        rstate = "STREAMING" /\ disconnected /\ cancelled'

\* the client's going away moves nothing by itself
DisconnectAlone ==
    (disconnected' # disconnected) =>
        UNCHANGED <<rstate, full_response, cancelled, emitted, assistant_rows>>

\* a relay that has ended stays where it is
TerminalStays == (rstate \in Terminal) => rstate' = rstate

\* C24: a disconnect is seen at the next chunk only, where the relay becomes
\* CANCELLED before a token of the chunk is yielded; by itself it moves
\* nothing; a stream closed before another chunk gives COMPLETED with the
\* text saved; and with a backend that closes or fails the stream every relay
\* ends in one of COMPLETED, CANCELLED, FAILED and stays there.
C24_ChunkBoundary ==
    /\ [][AfterDisconnect /\ CancelledAtChunk /\ DisconnectAlone /\ TerminalStays]_vars
    /\ <>(rstate \in Terminal)

C24_Witness ==
    /\ rstate = "COMPLETED"
    /\ disconnected
    /\ ~cancelled
    /\ full_response # ""
    /\ assistant_rows = << full_response >>

(***************************************************************************)
(* More claims about the caches (SpecCache)                                *)
(***************************************************************************)
\* C25: a fetch that fails (an answer that is not 200, a network fault, a
\* body that cannot be parsed) returns absent and leaves the four caches as
\* they are, a stale entry included, which is not served; no step removes a
\* key from a cache.
C25_FailedFetchFrame ==
    [][/\ \A p \in Threads :
            (call[p].pc = "fetching" /\ call'[p].pc = "done" /\ call'[p].failure) =>
                /\ call'[p].ret = None
                /\ cache' = cache
       /\ \A tier \in Tiers : DOMAIN cache[tier] \subseteq DOMAIN cache'[tier]
    ]_vars

\* the refresh of an entry that has expired fails: the call returns absent and
\* the entry is still there with its old time
C25_Witness ==
    \E p \in Threads :
        LET key == KeyOf(focus, call[p].args)
        IN  /\ call[p].pc = "done"
            /\ call[p].upstream = 1
            /\ call[p].failure
            /\ call[p].ret = None
            /\ key \in DOMAIN cache[focus]
            /\ now - cache[focus][key].at >= TTL(focus)

(***************************************************************************)
(* More claims about the chat turn (SpecTurn)                              *)
(***************************************************************************)
\* C26: last_location changes only in a turn that built a weather packet, to
\* the location of that turn; a turn without a location, without a geocoding
\* result or with a failing weather engine keeps it, and so does the end of
\* the stream, however it ends.
C26_LocationFrame ==
    [][/\ (last_location' # last_location) =>
              /\ turn.phase = "idle"
              /\ turn'.phase = "streaming"
              /\ turn'.build.kind = "packet"
              /\ turn'.write_ok
              /\ last_location' = turn'.location
       /\ (turn.phase # "idle") => last_location' = last_location
    ]_vars

\* a second turn, with a location of its own for which no packet is built,
\* after a turn that stored its location
C26_Witness ==
    /\ turns = 2
    /\ turn.phase = "streaming"
    /\ turn.location # ""
    /\ turn.build.kind # "packet"
    /\ last_location # ""
    /\ last_location # turn.location

====
